---------------------------- MODULE Spec2Model ----------------------------
(***************************************************************************)
(* Model of FRAM.py: the decoder of SPI transactions of an MB85RS4MT FeRAM *)
(* (generate_descriptions, hex_to_ascii) and the row-pair driver           *)
(* (process_pairs).                                                        *)
(*                                                                         *)
(* A Python str is a TLA+ string; its i-th character (1-based) is          *)
(* SubSeq(s, i, i).  A CSV row is a sequence of strings.                   *)
(***************************************************************************)
EXTENDS Integers, Sequences, FiniteSets, TLC

VARIABLES
    rows,        \* process_pairs: list(reader), the rows of the input file
    i,           \* process_pairs: the loop variable of range(0, len(rows), 2)
    out,         \* process_pairs: the rows written to the output file so far
    pc,          \* position of the running function
    op_code,     \* generate_descriptions: argument of the latest call
    mosi_row,    \* generate_descriptions: argument of the latest call
    miso_row,    \* generate_descriptions: argument of the latest call
    result,      \* generate_descriptions: outcome of the latest call
    hex_list,    \* hex_to_ascii: argument of the latest call
    ascii_str    \* hex_to_ascii: value returned by the latest call

vars == <<rows, i, out, pc, op_code, mosi_row, miso_row, result, hex_list, ascii_str>>

-----------------------------------------------------------------------------
(* Characters and strings                                                  *)

Char(s, k) == SubSeq(s, k, k)

Rest(s) == SubSeq(s, 2, Len(s))

Min(a, b) == IF a < b THEN a ELSE b

\* str.isspace() on the characters a CSV field of the model can hold
IsSpace(c) == c \in {" ", "\t"}

LowerDigits == "0123456789abcdef"
UpperDigits == "0123456789ABCDEF"

IsHexDigit(c) == \E k \in 1..16 : c = Char(LowerDigits, k) \/ c = Char(UpperDigits, k)

HexValue(c) ==
    (CHOOSE k \in 1..16 : c = Char(LowerDigits, k) \/ c = Char(UpperDigits, k)) - 1

\* the characters with codes 32..95 and 97..126, in code order
PrintableLow == " !\"#$%&'()*+,-./0123456789:;<=>?@ABCDEFGHIJKLMNOPQRSTUVWXYZ[\\]^_"
PrintableHigh == "abcdefghijklmnopqrstuvwxyz{|}~"

\* the character with code 96 (grave accent) cannot be written in a TLA+
\* string; the form feed, which no text of the model holds, stands for it
GraveAccent == "\f"

\* chr(val), for the values the program passes to it (32..126)
chr(val) ==
    IF val < 96 THEN Char(PrintableLow, val - 31)
    ELSE IF val = 96 THEN GraveAccent
    ELSE Char(PrintableHigh, val - 96)

-----------------------------------------------------------------------------
(* int(text, 16)                                                           *)

RECURSIVE LStrip(_)
LStrip(s) ==
    IF Len(s) > 0 /\ IsSpace(Char(s, 1)) THEN LStrip(Rest(s)) ELSE s

RECURSIVE RStrip(_)
RStrip(s) ==
    IF Len(s) > 0 /\ IsSpace(Char(s, Len(s)))
    THEN RStrip(SubSeq(s, 1, Len(s) - 1))
    ELSE s

HasSign(s) == Len(s) > 0 /\ Char(s, 1) \in {"+", "-"}

HasBasePrefix(s) == Len(s) >= 2 /\ Char(s, 1) = "0" /\ Char(s, 2) \in {"x", "X"}

\* digits, with single underscores between them; prev is "_" when the
\* character before s was an underscore (or the base prefix, which allows
\* one underscore after it) and "d" when it was a digit
RECURSIVE DigitsOk(_, _)
DigitsOk(s, prev) ==
    IF Len(s) = 0 THEN prev = "d"
    ELSE IF IsHexDigit(Char(s, 1)) THEN DigitsOk(Rest(s), "d")
    ELSE IF Char(s, 1) = "_" THEN prev # "_" /\ DigitsOk(Rest(s), "_")
    ELSE FALSE

RECURSIVE DigitsValue(_, _)
DigitsValue(s, acc) ==
    IF Len(s) = 0 THEN acc
    ELSE IF Char(s, 1) = "_" THEN DigitsValue(Rest(s), acc)
    ELSE DigitsValue(Rest(s), acc * 16 + HexValue(Char(s, 1)))

\* int(text, 16): [ok |-> FALSE] stands for ValueError
ParseHex(text) ==
    LET stripped == RStrip(LStrip(text))
        negative == HasSign(stripped) /\ Char(stripped, 1) = "-"
        unsigned == IF HasSign(stripped) THEN Rest(stripped) ELSE stripped
        prefixed == HasBasePrefix(unsigned)
        digits   == IF prefixed THEN SubSeq(unsigned, 3, Len(unsigned)) ELSE unsigned
        valid    == Len(digits) > 0
                    /\ DigitsOk(digits, IF prefixed THEN "p" ELSE "_")
    IN  IF valid
        THEN [ok |-> TRUE,
              val |-> IF negative THEN 0 - DigitsValue(digits, 0)
                                  ELSE DigitsValue(digits, 0)]
        ELSE [ok |-> FALSE, val |-> 0]

-----------------------------------------------------------------------------
(* Integer formatting and bit operations                                   *)

RECURSIVE HexUpper(_)
HexUpper(n) ==
    IF n < 16 THEN Char(UpperDigits, n + 1)
    ELSE HexUpper(n \div 16) \o Char(UpperDigits, (n % 16) + 1)

RECURSIVE ZeroPad(_, _)
ZeroPad(s, width) == IF Len(s) >= width THEN s ELSE ZeroPad("0" \o s, width)

\* f"{n:0<width>X}": sign first, then zeros up to the total width
FormatX(n, width) ==
    IF n < 0 THEN "-" \o ZeroPad(HexUpper(0 - n), width - 1)
    ELSE ZeroPad(HexUpper(n), width)

\* a & b, a | b and a & ~b on naturals
RECURSIVE NatAnd(_, _)
NatAnd(a, b) ==
    IF a = 0 \/ b = 0 THEN 0
    ELSE 2 * NatAnd(a \div 2, b \div 2) + (IF a % 2 = 1 /\ b % 2 = 1 THEN 1 ELSE 0)

RECURSIVE NatOr(_, _)
NatOr(a, b) ==
    IF a = 0 THEN b
    ELSE IF b = 0 THEN a
    ELSE 2 * NatOr(a \div 2, b \div 2) + (IF a % 2 = 1 \/ b % 2 = 1 THEN 1 ELSE 0)

RECURSIVE NatAndNot(_, _)
NatAndNot(a, b) ==
    IF a = 0 THEN 0
    ELSE IF b = 0 THEN a
    ELSE 2 * NatAndNot(a \div 2, b \div 2) + (IF a % 2 = 1 /\ b % 2 = 0 THEN 1 ELSE 0)

\* a | b on Python's unbounded two's-complement integers
BitOr(a, b) ==
    IF a >= 0 /\ b >= 0 THEN NatOr(a, b)
    ELSE IF a < 0 /\ b < 0 THEN 0 - NatAnd(0 - a - 1, 0 - b - 1) - 1
    ELSE IF a < 0 THEN 0 - NatAndNot(0 - a - 1, b) - 1
    ELSE 0 - NatAndNot(0 - b - 1, a) - 1

RECURSIVE Pow2(_)
Pow2(n) == IF n = 0 THEN 1 ELSE 2 * Pow2(n - 1)

\* a << n
ShiftLeft(a, n) == a * Pow2(n)

-----------------------------------------------------------------------------
(* The command tables                                                      *)

\* Dictionary mapping op-codes to command names
commands ==
    (6 :> "WREN") @@ (4 :> "WRDI") @@ (185 :> "SLEEP") @@ (5 :> "RDSR") @@
    (1 :> "WRSR") @@ (159 :> "RDID") @@ (3 :> "READ") @@ (2 :> "WRITE") @@
    (11 :> "FSTRD")

CommandInfo(len, rd, wr) ==
    [command_length |-> len, has_read_data |-> rd, has_write_data |-> wr]

\* Dictionary containing information about each command
command_info ==
    ("WREN" :> CommandInfo(1, FALSE, FALSE)) @@
    ("WRDI" :> CommandInfo(1, FALSE, FALSE)) @@
    ("SLEEP" :> CommandInfo(1, FALSE, FALSE)) @@
    ("RDSR" :> CommandInfo(1, TRUE, FALSE)) @@
    ("WRSR" :> CommandInfo(2, FALSE, FALSE)) @@
    ("RDID" :> CommandInfo(1, TRUE, FALSE)) @@
    ("READ" :> CommandInfo(4, TRUE, FALSE)) @@
    ("WRITE" :> CommandInfo(4, FALSE, TRUE)) @@
    ("FSTRD" :> CommandInfo(5, TRUE, FALSE))

\* Descriptions for commands without data
command_descriptions ==
    ("WREN" :> "Set Write Enable Latch") @@
    ("WRDI" :> "Reset Write Enable Latch") @@
    ("SLEEP" :> "Enter Sleep Mode") @@
    ("RDSR" :> "Read Status Register") @@
    ("WRSR" :> "Write Status Register") @@
    ("RDID" :> "Read Device ID") @@
    ("READ" :> "Read Memory") @@
    ("WRITE" :> "Write Memory") @@
    ("FSTRD" :> "Fast Read Memory")

-----------------------------------------------------------------------------
(* Python sequences                                                        *)

\* row[k:], k >= 0
SliceFrom(row, k) == SubSeq(row, k + 1, Len(row))

\* row[k:m], 0 <= k <= m
Slice(row, k, m) == SubSeq(row, k + 1, Min(m, Len(row)))

\* row[k] raises IndexError unless k < len(row)
InRange(row, k) == k < Len(row)

\* row[k], k >= 0, in range
Item(row, k) == row[k + 1]

\* sep.join(fields)
RECURSIVE Join(_, _)
Join(sep, fields) ==
    IF Len(fields) = 0 THEN ""
    ELSE IF Len(fields) = 1 THEN fields[1]
    ELSE fields[1] \o sep \o Join(sep, Tail(fields))

-----------------------------------------------------------------------------
(* hex_to_ascii                                                            *)

\* the upper end excluded, 32 <= val < 126
IsPrintable_UpperExcluded(val) == 32 <= val /\ val < 126

\* 32 <= val <= 126
IsPrintable(val) == 32 <= val /\ val <= 126

\* one pass of the loop body: what is appended to ascii_str for hex_val
AsciiOf(hex_val) ==
    LET parsed == ParseHex(hex_val)
    IN  IF parsed.ok
        THEN IF IsPrintable(parsed.val) THEN chr(parsed.val) ELSE "0x" \o hex_val
        ELSE "0x" \o hex_val

RECURSIVE AsciiLoop(_, _)
AsciiLoop(hex_vals, acc) ==
    IF Len(hex_vals) = 0 THEN acc
    ELSE AsciiLoop(Tail(hex_vals), acc \o AsciiOf(Head(hex_vals)))

hex_to_ascii(hex_vals) == AsciiLoop(hex_vals, "")

-----------------------------------------------------------------------------
(* generate_descriptions                                                   *)

\* the outcome of a call: the returned pair, or the exception that leaves it;
\* branch names the return statement or the arm of the if/elif chain taken
Returned(dmosi, dmiso, branch) ==
    [raised |-> "none", description_mosi |-> dmosi, description_miso |-> dmiso,
     branch |-> branch]

Raised(exc) ==
    [raised |-> exc, description_mosi |-> "", description_miso |-> "",
     branch |-> "raise"]

\* the format without its zero padding, f"Invalid command: 0x{op_code:X}"
InvalidCommand_Unpadded(op) == "Invalid command: 0x" \o FormatX(op, 1)

\* f"Invalid command: 0x{op_code:02X}"
InvalidCommand(op) == "Invalid command: 0x" \o FormatX(op, 2)

\* the comparison off by one, len(mosi_row) <= command_length
InsufficientBytes_OffByOne(mosi, command_length) == Len(mosi) <= command_length

\* len(mosi_row) < command_length
InsufficientBytes(mosi, command_length) == Len(mosi) < command_length

\* the shifts of the two upper bytes exchanged, (b1 << 8) | (b2 << 16) | b3
AddressValue_ShiftsSwapped(b1, b2, b3) ==
    BitOr(BitOr(ShiftLeft(b1, 8), ShiftLeft(b2, 16)), b3)

\* (b1 << 16) | (b2 << 8) | b3
AddressValue(b1, b2, b3) == BitOr(BitOr(ShiftLeft(b1, 16), ShiftLeft(b2, 8)), b3)

\* f"0x{address:06X}"
FormatAddress(address) == "0x" \o FormatX(address, 6)

\* address_str: None, or a string; exc is the exception that escapes the try
NoAddress == [exc |-> "none", is_none |-> TRUE, str |-> ""]
SomeAddress(s) == [exc |-> "none", is_none |-> FALSE, str |-> s]
AddressRaised(e) == [exc |-> e, is_none |-> TRUE, str |-> ""]

\* the operands are evaluated left to right: an index out of range raises
\* IndexError (not caught), a failed int() raises ValueError (caught)
AddressStr(command, mosi) ==
    IF command \in {"READ", "WRITE", "FSTRD"} /\ Len(mosi) >= 4
    THEN IF ~InRange(mosi, 1) THEN AddressRaised("IndexError")
         ELSE IF ~ParseHex(Item(mosi, 1)).ok THEN SomeAddress("invalid")
         ELSE IF ~InRange(mosi, 2) THEN AddressRaised("IndexError")
         ELSE IF ~ParseHex(Item(mosi, 2)).ok THEN SomeAddress("invalid")
         ELSE IF ~InRange(mosi, 3) THEN AddressRaised("IndexError")
         ELSE IF ~ParseHex(Item(mosi, 3)).ok THEN SomeAddress("invalid")
         ELSE SomeAddress(FormatAddress(AddressValue(ParseHex(Item(mosi, 1)).val,
                                                     ParseHex(Item(mosi, 2)).val,
                                                     ParseHex(Item(mosi, 3)).val)))
    ELSE NoAddress

\* if address_str: description_mosi += f", address: {address_str}"
WithAddress(description, address) ==
    IF ~address.is_none /\ Len(address.str) > 0
    THEN description \o ", address: " \o address.str
    ELSE description

\* ','.join([f"0x{b}" for b in id_bytes])
IdStr(id_bytes) == Join(",", [k \in 1..Len(id_bytes) |-> "0x" \o id_bytes[k]])

\* the slice taken from the start of the row, miso_row[0:4]
IdBytes_FromStart(miso, command_length) == Slice(miso, 0, 4)

\* miso_row[command_length:command_length+4]
IdBytes(miso, command_length) == Slice(miso, command_length, command_length + 4)

\* ','.join(data)
DataStr(data) == Join(",", data)

\* the guard off by one, len(miso_row) >= command_length
HasStatusByte_OffByOne(miso, command_length) == Len(miso) >= command_length

\* len(miso_row) > command_length, the guard of miso_row[command_length]
HasStatusByte(miso, command_length) == Len(miso) > command_length

DescribeWRSR(mosi) ==
    IF Len(mosi) >= 2
    THEN IF InRange(mosi, 1)
         THEN Returned("WRSR: Write Status Register, value: 0x" \o Item(mosi, 1),
                       "No data", "WRSR")
         ELSE Raised("IndexError")
    ELSE Returned("WRSR: Write Status Register (insufficient bytes)", "No data", "WRSR")

DescribeRDSR(miso, command_length) ==
    IF HasStatusByte(miso, command_length)
    THEN IF InRange(miso, command_length)
         THEN Returned("RDSR: Read Status Register",
                       "Status register: 0x" \o Item(miso, command_length), "RDSR")
         ELSE Raised("IndexError")
    ELSE Returned("RDSR: Read Status Register", "No data", "RDSR")

DescribeRDID(miso, command_length) ==
    IF Len(miso) >= command_length + 4
    THEN Returned("RDID: Read Device ID",
                  "Device ID: " \o IdStr(IdBytes(miso, command_length)), "RDID")
    ELSE Returned("RDID: Read Device ID", "Device ID (insufficient bytes)", "RDID")

DescribeREAD(command, command_length, address, miso) ==
    LET description_mosi == WithAddress(command \o " command", address)
        data == SliceFrom(miso, command_length)
    IN  IF Len(miso) > command_length
        THEN Returned(description_mosi,
                      "Data read: " \o DataStr(data)
                          \o " (ASCII: " \o hex_to_ascii(data) \o ")",
                      "READ")
        ELSE Returned(description_mosi, "No data", "READ")

\* the else arm giving "Unknown", as the two early returns do
DescribeWRITE_UnknownMiso(command, command_length, address, mosi) ==
    LET description_mosi == WithAddress(command \o " command", address)
        data == SliceFrom(mosi, command_length)
    IN  IF Len(mosi) > command_length
        THEN Returned(description_mosi \o ", data: " \o DataStr(data)
                          \o " (ASCII: " \o hex_to_ascii(data) \o ")",
                      "No data", "WRITE")
        ELSE Returned(description_mosi \o " (no data)", "Unknown", "WRITE")

DescribeWRITE(command, command_length, address, mosi) ==
    LET description_mosi == WithAddress(command \o " command", address)
        data == SliceFrom(mosi, command_length)
    IN  IF Len(mosi) > command_length
        THEN Returned(description_mosi \o ", data: " \o DataStr(data)
                          \o " (ASCII: " \o hex_to_ascii(data) \o ")",
                      "No data", "WRITE")
        ELSE Returned(description_mosi \o " (no data)", "No data", "WRITE")

DescribeFSTRD(command, command_length, address, miso) ==
    LET description_mosi == WithAddress(command \o " command", address)
        data == SliceFrom(miso, command_length)
    IN  IF Len(miso) > command_length
        THEN Returned(description_mosi,
                      "Data read: " \o DataStr(data)
                          \o " (ASCII: " \o hex_to_ascii(data) \o ")",
                      "FSTRD")
        ELSE Returned(description_mosi, "No data", "FSTRD")

\* the final else; command_descriptions[command] raises KeyError on a
\* missing key
DescribeGeneric(command) ==
    IF command \in DOMAIN command_descriptions
    THEN Returned(command \o ": " \o command_descriptions[command], "No data", "generic")
    ELSE Raised("KeyError")

\* the chain without its RDSR arm
Branch_NoRDSR(command) ==
    IF command = "WRSR" THEN "WRSR"
    ELSE IF command = "RDID" THEN "RDID"
    ELSE IF command = "READ" THEN "READ"
    ELSE IF command = "WRITE" THEN "WRITE"
    ELSE IF command = "FSTRD" THEN "FSTRD"
    ELSE "generic"

\* the arm of the if/elif chain that a command name selects
Branch(command) ==
    IF command = "WRSR" THEN "WRSR"
    ELSE IF command = "RDSR" THEN "RDSR"
    ELSE IF command = "RDID" THEN "RDID"
    ELSE IF command = "READ" THEN "READ"
    ELSE IF command = "WRITE" THEN "WRITE"
    ELSE IF command = "FSTRD" THEN "FSTRD"
    ELSE "generic"

Describe(command, command_length, address, mosi, miso) ==
    LET arm == Branch(command)
    IN  IF arm = "WRSR" THEN DescribeWRSR(mosi)
        ELSE IF arm = "RDSR" THEN DescribeRDSR(miso, command_length)
        ELSE IF arm = "RDID" THEN DescribeRDID(miso, command_length)
        ELSE IF arm = "READ" THEN DescribeREAD(command, command_length, address, miso)
        ELSE IF arm = "WRITE" THEN DescribeWRITE(command, command_length, address, mosi)
        ELSE IF arm = "FSTRD" THEN DescribeFSTRD(command, command_length, address, miso)
        ELSE DescribeGeneric(command)

generate_descriptions(op, mosi, miso) ==
    IF op \notin DOMAIN commands
    THEN Returned(InvalidCommand(op), "Unknown", "invalid")
    ELSE LET command == commands[op]
         IN  IF command \notin DOMAIN command_info
             THEN Raised("KeyError")
             ELSE LET command_length == command_info[command].command_length
                      address == AddressStr(command, mosi)
                  IN  IF InsufficientBytes(mosi, command_length)
                      THEN Returned(command \o " command (insufficient bytes)",
                                    "Unknown", "insufficient")
                      ELSE IF address.exc # "none"
                      THEN Raised(address.exc)
                      ELSE Describe(command, command_length, address, mosi, miso)

-----------------------------------------------------------------------------
(* Bounds and input sets                                                   *)

\* longest MOSI or MISO row handed to generate_descriptions
MaxRowLen == 6

\* most rows of an input file
MaxRows == 4

\* longest list handed to hex_to_ascii
MaxAsciiLen == 2

\* most data bytes after the address of a READ, WRITE or FSTRD
MaxData == 2

\* all sequences over texts of length 0..n
SeqsUpTo(texts, n) == UNION {[1..k -> texts] : k \in 0..n}

\* first fields of a MOSI row: the 9 op-codes of the table (one of them in
\* lower case too), and texts that parse to op-codes outside it, inside and
\* outside 0..255
OpCodeTexts ==
    {"06", "04", "B9", "b9", "05", "01", "9F", "03", "02", "0B",
     "00", "07", "FF", "100", "ABC", "-1"}

MosiTexts == {"80", "zz"}
MisoTexts == {"41", "zz"}

\* byte texts of an address: valid in both cases, padded, prefixed, not hex,
\* empty, and parsing to values outside 0..255
AddressTexts == {"00", "10", "FF", "ab", " 7", "0x1F", "ZZ", "", "100", "-1"}

\* byte texts of a data dump
AsciiTexts ==
    {"20", "7E", "7e", "41", "42", "61", "00", "1F", "7F", "80", "FF", "5C", "22",
     "0x41", " 41", "4_1", "+41", "041", "-41", "141", "ZZ", "4G", "", "_41", "0x"}

\* the rows of an input file: a blank line, a row whose first field is not
\* hex, the READ and RDID captures, rows with op-codes outside the table
FileRows ==
    { <<>>, <<"ZZ">>,
      <<"03", "00", "00", "10">>, <<"00", "00", "00", "00", "41", "42">>,
      <<"9F">>, <<"00", "13", "14", "5E", "01">>,
      <<"100">>, <<"-1", "00">> }

NoCall == [raised |-> "none", description_mosi |-> "", description_miso |-> "",
           branch |-> "none"]

-----------------------------------------------------------------------------
(* generate_descriptions, called on its own                                *)

InitDecode ==
    /\ pc = "call"
    /\ \E text \in OpCodeTexts :
          /\ ParseHex(text).ok
          /\ op_code = ParseHex(text).val
    /\ mosi_row \in SeqsUpTo(MosiTexts, MaxRowLen)
    /\ miso_row \in SeqsUpTo(MisoTexts, MaxRowLen)
    /\ result = NoCall
    /\ rows = <<>> /\ i = 0 /\ out = <<>>
    /\ hex_list = <<>> /\ ascii_str = ""

CallGenerate ==
    /\ pc = "call"
    /\ result' = generate_descriptions(op_code, mosi_row, miso_row)
    /\ pc' = "returned"
    /\ UNCHANGED <<rows, i, out, op_code, mosi_row, miso_row, hex_list, ascii_str>>

NextDecode == CallGenerate

SpecDecode == InitDecode /\ [][NextDecode]_vars

-----------------------------------------------------------------------------
(* generate_descriptions on READ, WRITE and FSTRD with all address bytes   *)

AddressCommands == {op \in DOMAIN commands : commands[op] \in {"READ", "WRITE", "FSTRD"}}

InitAddress ==
    /\ pc = "call"
    /\ op_code \in AddressCommands
    /\ \E b1 \in AddressTexts, b2 \in AddressTexts, b3 \in AddressTexts,
          data \in SeqsUpTo({"00", "41"}, MaxData) :
            mosi_row = <<FormatX(op_code, 2), b1, b2, b3>> \o data
    /\ miso_row \in {<<>>, <<"00", "00", "00", "00", "41", "42">>}
    /\ result = NoCall
    /\ rows = <<>> /\ i = 0 /\ out = <<>>
    /\ hex_list = <<>> /\ ascii_str = ""

SpecAddress == InitAddress /\ [][NextDecode]_vars

-----------------------------------------------------------------------------
(* hex_to_ascii, called on its own                                         *)

InitAscii ==
    /\ pc = "call"
    /\ hex_list \in SeqsUpTo(AsciiTexts, MaxAsciiLen)
    /\ ascii_str = ""
    /\ op_code = 0 /\ mosi_row = <<>> /\ miso_row = <<>> /\ result = NoCall
    /\ rows = <<>> /\ i = 0 /\ out = <<>>

CallHexToAscii ==
    /\ pc = "call"
    /\ ascii_str' = hex_to_ascii(hex_list)
    /\ pc' = "returned"
    /\ UNCHANGED <<rows, i, out, op_code, mosi_row, miso_row, result, hex_list>>

NextAscii == CallHexToAscii

SpecAscii == InitAscii /\ [][NextAscii]_vars

-----------------------------------------------------------------------------
(* process_pairs                                                           *)

\* rows[k], k >= 0
RowAt(k) == rows[k + 1]

\* a step of 1, range(0, len(rows))
NextIndex_ByOne(k) == k + 1

\* the step of range(0, len(rows), 2)
NextIndex(k) == k + 2

\* [description] + row
Prepend(description, row) == <<description>> \o row

\* writer.writerow(new_miso_row); writer.writerow(new_mosi_row)
WriteRows(written, new_miso_row, new_mosi_row) ==
    written \o <<new_miso_row, new_mosi_row>>

Init ==
    /\ pc = "loop"
    /\ rows \in SeqsUpTo(FileRows, MaxRows)
    /\ i = 0
    /\ out = <<>>
    /\ op_code = 0 /\ mosi_row = <<>> /\ miso_row = <<>> /\ result = NoCall
    /\ hex_list = <<>> /\ ascii_str = ""

\* range(0, len(rows), 2) is exhausted
Exhausted ==
    /\ pc = "loop"
    /\ i >= Len(rows)
    /\ pc' = "done"
    /\ UNCHANGED <<rows, i, out, op_code, mosi_row, miso_row, result, hex_list, ascii_str>>

\* if i + 1 >= len(rows): break
Break ==
    /\ pc = "loop"
    /\ i < Len(rows)
    /\ i + 1 >= Len(rows)
    /\ pc' = "done"
    /\ UNCHANGED <<rows, i, out, op_code, mosi_row, miso_row, result, hex_list, ascii_str>>

\* if len(mosi_row) == 0 or len(miso_row) == 0: continue
SkipEmptyRow ==
    /\ pc = "loop"
    /\ i < Len(rows)
    /\ i + 1 < Len(rows)
    /\ Len(RowAt(i + 1)) = 0 \/ Len(RowAt(i)) = 0
    /\ i' = NextIndex(i)
    /\ UNCHANGED <<rows, out, pc, op_code, mosi_row, miso_row, result, hex_list, ascii_str>>

\* except ValueError: continue
SkipBadOpCode ==
    /\ pc = "loop"
    /\ i < Len(rows)
    /\ i + 1 < Len(rows)
    /\ Len(RowAt(i + 1)) # 0 /\ Len(RowAt(i)) # 0
    /\ ~ParseHex(Item(RowAt(i + 1), 0)).ok
    /\ i' = NextIndex(i)
    /\ UNCHANGED <<rows, out, pc, op_code, mosi_row, miso_row, result, hex_list, ascii_str>>

\* the call of generate_descriptions and the two writerow calls; an
\* exception of the call leaves process_pairs
WritePair ==
    /\ pc = "loop"
    /\ i < Len(rows)
    /\ i + 1 < Len(rows)
    /\ Len(RowAt(i + 1)) # 0 /\ Len(RowAt(i)) # 0
    /\ ParseHex(Item(RowAt(i + 1), 0)).ok
    /\ miso_row' = RowAt(i)
    /\ mosi_row' = RowAt(i + 1)
    /\ op_code' = ParseHex(Item(RowAt(i + 1), 0)).val
    /\ result' = generate_descriptions(op_code', mosi_row', miso_row')
    /\ IF result'.raised = "none"
       THEN /\ out' = WriteRows(out, Prepend(result'.description_miso, miso_row'),
                                     Prepend(result'.description_mosi, mosi_row'))
            /\ i' = NextIndex(i)
            /\ pc' = "loop"
       ELSE /\ pc' = "raised"
            /\ UNCHANGED <<out, i>>
    /\ UNCHANGED <<rows, hex_list, ascii_str>>

Next == Exhausted \/ Break \/ SkipEmptyRow \/ SkipBadOpCode \/ WritePair

Spec == Init /\ [][Next]_vars

-----------------------------------------------------------------------------
(* Properties                                                              *)

\* the op-codes 0x06, 0x04, 0xB9, 0x05, 0x01, 0x9F, 0x03, 0x02, 0x0B
KnownOpCodes == {6, 4, 185, 5, 1, 159, 3, 2, 11}

\* generate_descriptions has been called and has returned or raised
Called == pc = "returned" /\ result.branch # "none"

\* text consists of upper-case hex digits and denotes n
IsUpperHexOf(text, n) ==
    /\ \A k \in 1..Len(text) : \E j \in 1..16 : Char(text, k) = Char(UpperDigits, j)
    /\ Len(text) > 0
    /\ DigitsValue(text, 0) = n

StartsWith(text, prefix) ==
    Len(text) >= Len(prefix) /\ SubSeq(text, 1, Len(prefix)) = prefix

After(text, prefix) == SubSeq(text, Len(prefix) + 1, Len(text))

InvalidPrefix == "Invalid command: 0x"

\* C1 as stated: for every op-code outside the table, whatever the rows,
\* the call returns ("Invalid command: 0x" + the op-code as exactly 2
\* upper-case hex digits, "Unknown") and does not raise.
C1_AsClaimed ==
    (Called /\ op_code \notin KnownOpCodes) =>
        /\ result.raised = "none"
        /\ result.description_miso = "Unknown"
        /\ StartsWith(result.description_mosi, InvalidPrefix)
        /\ Len(After(result.description_mosi, InvalidPrefix)) = 2
        /\ IsUpperHexOf(After(result.description_mosi, InvalidPrefix), op_code)

\* C1 amended: for every op-code outside the table, whatever the rows, the
\* call does not raise and returns misoDescription "Unknown" and
\* mosiDescription "Invalid command: 0x" followed by the op-code in
\* upper-case hex zero-padded to a minimum width of 2: exactly 2 digits for
\* 0..255, all the digits (3 or more, no leading zero) for 256 and above,
\* and "-" followed by the digits of the absolute value, without padding,
\* for a negative op-code.
C1_InvalidCommand ==
    (Called /\ op_code \notin KnownOpCodes) =>
        LET digits == After(result.description_mosi, InvalidPrefix)
        IN  /\ result.raised = "none"
            /\ result.description_miso = "Unknown"
            /\ StartsWith(result.description_mosi, InvalidPrefix)
            /\ (0 <= op_code /\ op_code <= 255) =>
                    Len(digits) = 2 /\ IsUpperHexOf(digits, op_code)
            /\ op_code >= 256 =>
                    /\ Len(digits) >= 3
                    /\ Char(digits, 1) # "0"
                    /\ IsUpperHexOf(digits, op_code)
            /\ op_code < 0 =>
                    /\ Char(digits, 1) = "-"
                    /\ IsUpperHexOf(Rest(digits), 0 - op_code)
                    /\ Char(digits, 2) # "0"

\* an op-code of three hex digits, with rows that are not empty
C1_Witness ==
    /\ Called
    /\ op_code = 256
    /\ Len(mosi_row) > 0 /\ Len(miso_row) > 0
    /\ result.description_mosi = "Invalid command: 0x100"
    /\ result.description_miso = "Unknown"

\* the commandLength of each command as C2 lists them
ClaimedLength(op) ==
    IF op \in {6, 4, 185, 5, 159} THEN 1
    ELSE IF op = 1 THEN 2
    ELSE IF op \in {3, 2} THEN 4
    ELSE 5

InsufficientPair(op) ==
    [raised |-> "none",
     description_mosi |-> commands[op] \o " command (insufficient bytes)",
     description_miso |-> "Unknown"]

ReturnedPair ==
    [raised |-> result.raised,
     description_mosi |-> result.description_mosi,
     description_miso |-> result.description_miso]

\* C2: for a known op-code, a MOSI row shorter than the command's
\* commandLength gives exactly ("<name> command (insufficient bytes)",
\* "Unknown") whatever the MISO row, and a MOSI row of at least
\* commandLength bytes never gives that pair.
C2_InsufficientBytes ==
    (Called /\ op_code \in KnownOpCodes) =>
        (Len(mosi_row) < ClaimedLength(op_code)) = (ReturnedPair = InsufficientPair(op_code))

\* FSTRD with 4 MOSI bytes, one short of its commandLength
C2_Witness ==
    /\ Called
    /\ op_code = 11
    /\ Len(mosi_row) = 4
    /\ Len(miso_row) > 5
    /\ result.description_mosi = "FSTRD command (insufficient bytes)"
    /\ result.description_miso = "Unknown"

EndsWith(text, suffix) ==
    Len(text) >= Len(suffix)
    /\ SubSeq(text, Len(text) - Len(suffix) + 1, Len(text)) = suffix

\* every byte as "0x" followed by its text, joined by commas
RECURSIVE HexJoined(_)
HexJoined(data) ==
    IF Len(data) = 0 THEN ""
    ELSE IF Len(data) = 1 THEN "0x" \o data[1]
    ELSE "0x" \o data[1] \o "," \o HexJoined(Tail(data))

DataDump(data) == HexJoined(data) \o " (ASCII: " \o hex_to_ascii(data) \o ")"

\* C3 as stated: the data dump of READ and FSTRD (MISO bytes from index
\* commandLength on) and of WRITE (MOSI bytes from index commandLength on)
\* renders every data byte as "0x" followed by its text, joined by commas,
\* so that the READ capture of the specification gives
\* "Data read: 0x41,0x42 (ASCII: AB)"; with no byte past commandLength the
\* misoDescription of READ and FSTRD is "No data".
C3_AsClaimed ==
    (Called /\ op_code \in {3, 2, 11} /\ Len(mosi_row) >= ClaimedLength(op_code)) =>
        /\ (op_code \in {3, 11} /\ Len(miso_row) > ClaimedLength(op_code)) =>
                result.description_miso =
                    "Data read: " \o DataDump(SliceFrom(miso_row, ClaimedLength(op_code)))
        /\ (op_code \in {3, 11} /\ Len(miso_row) <= ClaimedLength(op_code)) =>
                result.description_miso = "No data"
        /\ (op_code = 2 /\ Len(mosi_row) > ClaimedLength(op_code)) =>
                EndsWith(result.description_mosi,
                         ", data: " \o DataDump(SliceFrom(mosi_row, ClaimedLength(op_code))))
        /\ (op_code = 3 /\ mosi_row = <<"03", "00", "00", "10">>
                /\ miso_row = <<"00", "00", "00", "00", "41", "42">>) =>
                result.description_miso = "Data read: 0x41,0x42 (ASCII: AB)"

\* C4 as stated: for WRSR and WRITE the misoDescription is "No data" for
\* every MOSI row, the rows shorter than commandLength included.
C4_AsClaimed ==
    (Called /\ op_code \in {1, 2}) => result.description_miso = "No data"

\* C4 amended: for WRSR and WRITE the misoDescription is "No data" for
\* every MOSI row of at least commandLength bytes (2 for WRSR, 4 for WRITE)
\* and every MISO row; for a shorter MOSI row it is "Unknown".
C4_NoDataMiso ==
    (Called /\ op_code \in {1, 2}) =>
        /\ result.raised = "none"
        /\ Len(mosi_row) >= ClaimedLength(op_code) => result.description_miso = "No data"
        /\ Len(mosi_row) < ClaimedLength(op_code) => result.description_miso = "Unknown"

\* WRITE with its address and no data byte, and a MISO row that holds bytes
C4_Witness ==
    /\ Called
    /\ op_code = 2
    /\ Len(mosi_row) = 4
    /\ Len(miso_row) > 4
    /\ result.description_miso = "No data"

\* C5: for RDID with at least 1 MOSI byte the mosiDescription is
\* "RDID: Read Device ID"; with 5 or more MISO bytes the misoDescription is
\* "Device ID: " followed by exactly the 4 bytes at indices 1..4, each as
\* "0x" and its text, joined by commas; with 0..4 MISO bytes it is
\* "Device ID (insufficient bytes)".
C5_DeviceId ==
    (Called /\ op_code = 159 /\ Len(mosi_row) >= 1) =>
        /\ result.raised = "none"
        /\ result.description_mosi = "RDID: Read Device ID"
        /\ Len(miso_row) >= 5 =>
                result.description_miso =
                    "Device ID: 0x" \o miso_row[2] \o ",0x" \o miso_row[3]
                        \o ",0x" \o miso_row[4] \o ",0x" \o miso_row[5]
        /\ Len(miso_row) < 5 =>
                result.description_miso = "Device ID (insufficient bytes)"

\* 6 MISO bytes: the byte at index 0 differs from the one at index 1 and the
\* byte at index 5 from the one at index 4, and neither is rendered
C5_Witness ==
    /\ Called
    /\ op_code = 159
    /\ miso_row = <<"zz", "41", "41", "zz", "41", "zz">>
    /\ result.description_miso = "Device ID: 0x41,0x41,0xzz,0x41"

\* the 6 upper-case hex digits of v, 0 <= v <= 0xFFFFFF
Hex6(v) ==
    Char(UpperDigits, ((v \div 1048576) % 16) + 1)
        \o Char(UpperDigits, ((v \div 65536) % 16) + 1)
        \o Char(UpperDigits, ((v \div 4096) % 16) + 1)
        \o Char(UpperDigits, ((v \div 256) % 16) + 1)
        \o Char(UpperDigits, ((v \div 16) % 16) + 1)
        \o Char(UpperDigits, (v % 16) + 1)

\* what may follow the address in a mosiDescription
AfterAddressOk(rest) ==
    rest = "" \/ rest = " (no data)" \/ StartsWith(rest, ", data: ")

\* C6: for READ, WRITE and FSTRD with enough MOSI bytes, when the bytes at
\* indices 1..3 all parse as hex bytes 0..255 the address string is "0x" and
\* the 6 upper-case hex digits of b1*65536 + b2*256 + b3, a value within
\* 0..0xFFFFFF; when one of them fails to parse the address string is
\* "invalid" and the call still returns a pair, with ", address: invalid"
\* in the mosiDescription.
C6_Address ==
    (Called /\ op_code \in {3, 2, 11} /\ Len(mosi_row) >= ClaimedLength(op_code)) =>
        LET b1 == ParseHex(mosi_row[2])
            b2 == ParseHex(mosi_row[3])
            b3 == ParseHex(mosi_row[4])
            value == b1.val * 65536 + b2.val * 256 + b3.val
            head == commands[op_code] \o " command, address: "
        IN  /\ result.raised = "none"
            /\ (/\ b1.ok /\ b2.ok /\ b3.ok
                /\ {b1.val, b2.val, b3.val} \subseteq 0..255) =>
                    /\ value \in 0..16777215
                    /\ StartsWith(result.description_mosi, head \o "0x" \o Hex6(value))
                    /\ AfterAddressOk(After(result.description_mosi,
                                            head \o "0x" \o Hex6(value)))
            /\ ~(b1.ok /\ b2.ok /\ b3.ok) =>
                    /\ StartsWith(result.description_mosi, head \o "invalid")
                    /\ AfterAddressOk(After(result.description_mosi, head \o "invalid"))

\* the READ capture of the specification
C6_Witness ==
    /\ Called
    /\ op_code = 3
    /\ mosi_row = <<"03", "00", "00", "10">>
    /\ result.description_mosi = "READ command, address: 0x000010"

\* what C7 gives for one byte text
ClaimedAscii(hex_val) ==
    IF ParseHex(hex_val).ok /\ 32 <= ParseHex(hex_val).val /\ ParseHex(hex_val).val <= 126
    THEN chr(ParseHex(hex_val).val)
    ELSE "0x" \o hex_val

RECURSIVE Concat(_)
Concat(texts) == IF Len(texts) = 0 THEN "" ELSE Head(texts) \o Concat(Tail(texts))

\* C7: hex_to_ascii renders each byte text on its own and concatenates the
\* results in input order with no separator: a byte whose value v has
\* 32 <= v <= 126 becomes the one character with code v ("20" a space,
\* "7E" a tilde, "41" an A), a byte with v < 32 or v > 126 ("00", "1F",
\* "7F") or that does not parse becomes "0x" and its text; the empty list
\* gives the empty string.
C7_HexToAscii ==
    pc = "returned" =>
        /\ ascii_str = Concat([k \in 1..Len(hex_list) |-> ClaimedAscii(hex_list[k])])
        /\ \A k \in 1..Len(hex_list) :
                (ParseHex(hex_list[k]).ok /\ ParseHex(hex_list[k]).val \in 32..126)
                    => Len(ClaimedAscii(hex_list[k])) = 1
        /\ hex_list = <<>> => ascii_str = ""
        /\ hex_list = <<"20">> => ascii_str = " "
        /\ hex_list = <<"7E">> => ascii_str = "~"
        /\ hex_list = <<"41">> => ascii_str = "A"
        /\ hex_list = <<"00">> => ascii_str = "0x00"
        /\ hex_list = <<"1F">> => ascii_str = "0x1F"
        /\ hex_list = <<"7F">> => ascii_str = "0x7F"
        /\ hex_list = <<"ZZ">> => ascii_str = "0xZZ"

\* a printable byte at the upper end of the range after one that is not
C7_Witness ==
    /\ pc = "returned"
    /\ hex_list = <<"7F", "7E">>
    /\ ascii_str = "0x7F~"

\* pair k of the input (k >= 0): MISO = row 2k, MOSI = row 2k+1
MisoOf(k) == rows[2 * k + 1]
MosiOf(k) == rows[2 * k + 2]

\* pair k is emitted: both rows have a field and the first MOSI field is hex
Emitted(k) ==
    /\ Len(MisoOf(k)) >= 1
    /\ Len(MosiOf(k)) >= 1
    /\ ParseHex(MosiOf(k)[1]).ok

\* the two rows written for pair k
RowsOf(k) ==
    LET d == generate_descriptions(ParseHex(MosiOf(k)[1]).val, MosiOf(k), MisoOf(k))
    IN  << <<d.description_miso>> \o MisoOf(k), <<d.description_mosi>> \o MosiOf(k) >>

\* the rows written for the pairs k, k+1, ..., n-1
RECURSIVE OutputOf(_, _)
OutputOf(k, n) ==
    IF k >= n THEN <<>>
    ELSE (IF Emitted(k) THEN RowsOf(k) ELSE <<>>) \o OutputOf(k + 1, n)

\* C8: process_pairs pairs the rows by position, pair k being (MISO = row
\* 2k, MOSI = row 2k+1) for 0 <= k < floor(n/2), the last row of an odd
\* input in no pair; a pair is emitted iff both rows have a field and the
\* first MOSI field parses as hex; a skipped pair writes nothing and does
\* not shift the later pairs; the output is, in increasing k over the
\* emitted pairs, [misoDescription] + MISO row then [mosiDescription] + MOSI
\* row: 2 rows per emitted pair.
C8_Pairing ==
    /\ pc \in {"loop", "done"}
    /\ i % 2 = 0 /\ i <= Len(rows)
    /\ pc = "loop" => out = OutputOf(0, i \div 2)
    /\ pc = "done" =>
        /\ out = OutputOf(0, Len(rows) \div 2)
        /\ Len(out) = 2 * Cardinality({k \in 0..(Len(rows) \div 2) - 1 : Emitted(k)})
        /\ Len(rows) = 3 => Len(out) <= 2

\* 4 rows: the first pair skipped for its MOSI op-code, the second written
C8_Witness ==
    /\ pc = "done"
    /\ Len(rows) = 4
    /\ Len(MisoOf(0)) >= 1 /\ Len(MosiOf(0)) >= 1 /\ ~Emitted(0)
    /\ Emitted(1)
    /\ Len(out) = 2
    /\ Tail(out[1]) = rows[3]
    /\ Tail(out[2]) = rows[4]

\* C9 as stated: no call with one of the 9 known op-codes reaches the final
\* else that builds "<name>: <generic description>".
C9_AsClaimed ==
    (Called /\ op_code \in KnownOpCodes) => result.branch # "generic"

\* C9 amended: a call with a known op-code reaches the final else exactly
\* when the command is WREN, WRDI or SLEEP and the MOSI row has at least 1
\* byte, and then returns ("<name>: <generic description>", "No data"); RDSR,
\* WRSR, RDID, READ, WRITE and FSTRD never reach it.
C9_GenericBranch ==
    (Called /\ op_code \in KnownOpCodes) =>
        /\ (result.branch = "generic") = (op_code \in {6, 4, 185} /\ Len(mosi_row) >= 1)
        /\ result.branch = "generic" =>
            /\ result.description_mosi
                    \in {"WREN: Set Write Enable Latch", "WRDI: Reset Write Enable Latch",
                         "SLEEP: Enter Sleep Mode"}
            /\ result.description_miso = "No data"

\* SLEEP, decoded by the final else
C9_Witness ==
    /\ Called
    /\ op_code = 185
    /\ result.branch = "generic"
    /\ result.description_mosi = "SLEEP: Enter Sleep Mode"
    /\ result.description_miso = "No data"

\* C10: generate_descriptions returns a pair and never raises, for every
\* op-code and all rows of arbitrary strings; every op-code of the name
\* table has an entry in the metadata table and in the generic-description
\* table.
C10_Total ==
    /\ \A op \in DOMAIN commands :
            commands[op] \in DOMAIN command_info
            /\ commands[op] \in DOMAIN command_descriptions
    /\ Called =>
            /\ result.raised = "none"
            /\ result.branch # "raise"
            /\ Len(result.description_mosi) > 0
            /\ Len(result.description_miso) > 0

\* FSTRD with an address byte and a data byte that are not hex
C10_Witness ==
    /\ Called
    /\ op_code = 11
    /\ Len(mosi_row) = 6 /\ mosi_row[2] = "zz"
    /\ Len(miso_row) = 6 /\ miso_row[6] = "zz"
    /\ result.raised = "none"
    /\ result.description_mosi = "FSTRD command, address: invalid"
    /\ result.description_miso = "Data read: zz (ASCII: 0xzz)"

=============================================================================
